---- MODULE Spec2Model ----
(***************************************************************************)
(* Bar-driven strategy execution engine of backtestpy: the six strategy    *)
(* classes (their next() steps) run against a broker that queues the       *)
(* orders a step emits and executes them before the following step.        *)
(*                                                                         *)
(* Numbers.  Prices, volumes and equity are integers.  Fractions of the    *)
(* source (0.02, 1.5, ...) are integers in 1/Unit, so 0.02 is 200 and a    *)
(* comparison  a <= b * (1 - 0.02)  is  a * Unit <= b * (Unit - 200).      *)
(* Order sizes and the price levels attached to orders are in 1/Unit.      *)
(***************************************************************************)
EXTENDS Integers, Sequences, FiniteSets, TLC

VARIABLES
    variant,            \* which strategy class this run executes, 1..6
    failed,             \* the step raised: the run is aborted
    len_data,           \* len(self.data) seen by the next step
    side,               \* direction of the open trades: "flat", "long", "short"
    trades,             \* number of open trades at the broker, len(self.trades)
    trade_entry_price,  \* fill price of the latest trade, self.trades[-1].entry_price
    pending,            \* market order queued by the last step: none/buy/sell/close
    resting,            \* resting limit orders at the broker, per side (variant 3)
    bar,                \* the data and indicator values the last step read
    out,                \* what the last step did: orders, closes, locals
    i,                  \* FundingCrossover.i
    has_funding,        \* FundingCrossover.has_funding
    funding_fetch,      \* what fetch_funding_rates met in __main__ (variant 1)
    max_high,           \* FundingCrossover.max_high
    entry_price,        \* FundingCrossover.entry_price, ConfluentOversold.entry_price
    entry_bar,          \* FundingCrossover.entry_bar, CorrelativeReversion.entry_bar
    stop_loss,          \* ConfluentOversold.stop_loss
    take_profit,        \* ConfluentOversold.take_profit
    previous_low_price, \* ConfluentOversold.previous_low_price
    previous_low_obv,   \* ConfluentOversold.previous_low_obv
    current_low_price,  \* ConfluentOversold.current_low_price
    current_low_obv,    \* ConfluentOversold.current_low_obv
    initial_capital,    \* ConfluentOversold.initial_capital
    equity_moved,       \* a closed trade has moved self.equity away from it
    max_concurrent,     \* OpportunisticMaker.max_concurrent (a run parameter)
    trade_bars,         \* NicheCostReversal.trade_bars
    entry_atr           \* HolisticDecomposition.entry_atr

vars == <<variant, failed, len_data, side, trades, trade_entry_price, pending,
          resting, bar, out, i, has_funding, funding_fetch, max_high,
          entry_price, entry_bar,
          stop_loss, take_profit, previous_low_price, previous_low_obv,
          current_low_price, current_low_obv, initial_capital, equity_moved,
          max_concurrent, trade_bars, entry_atr>>

brokerVars == <<side, trades, trade_entry_price, pending, resting>>
fcVars == <<i, has_funding, funding_fetch, max_high>>
coVars == <<stop_loss, take_profit, previous_low_price, previous_low_obv,
            current_low_price, current_low_obv, initial_capital>>
sharedVars == <<entry_price, entry_bar>>
otherVars == <<max_concurrent, trade_bars, entry_atr>>

----------------------------------------------------------------------------
(* Numeric conventions *)

\* 10^4: the resolution of round(x, 4), and the scale of every fraction
Unit == 10000

\* numpy.nan: an undefined indicator value
NaN == -999999

\* an attribute that was never assigned (hasattr is False) or holds None
Absent == -888888

\* float('inf') and float('-inf')
PosInf == 999999
NegInf == -999998

IsNaN(x) == x = NaN

\* comparisons as IEEE floats make them: any comparison with NaN is False
Lt(a, b) == ~IsNaN(a) /\ ~IsNaN(b) /\ a < b
Gt(a, b) == ~IsNaN(a) /\ ~IsNaN(b) /\ a > b
Le(a, b) == ~IsNaN(a) /\ ~IsNaN(b) /\ a <= b
Ge(a, b) == ~IsNaN(a) /\ ~IsNaN(b) /\ a >= b

Max(a, b) == IF b > a THEN b ELSE a
Abs(a) == IF a < 0 THEN -a ELSE a

\* round(n / d) to the nearest integer, ties to the even one (Python 3, numpy);
\* d > 0
RoundHalfEven(n, d) ==
    LET q == n \div d
        r == n % d
    IN  IF 2 * r < d THEN q
        ELSE IF 2 * r > d THEN q + 1
        ELSE IF q % 2 = 0 THEN q ELSE q + 1

----------------------------------------------------------------------------
(* Bounds of the model *)

\* FundingCrossover: number of bars a run steps through
MaxBars == 30

\* how many fields of an entry bar may differ from the qualifying bar
MaxDeviation == 1

\* OpportunisticMaker: resting limit orders per side the book is followed to
MaxResting == 3

----------------------------------------------------------------------------
(* Records shared by the six strategies *)

\* the values a step can read from self.data, the indicators and the broker
NoBar ==
    [High |-> 0, Low |-> 0, Close |-> 0, Volume |-> 0, equity |-> 0,
     prev_close |-> 0, ema |-> 0, prev_ema |-> 0, avg_vol |-> 0,
     funding |-> 0, prev_funding |-> 0,
     sma |-> 0, stdev |-> 0,
     rsi |-> 0, atr |-> 0, ema_short |-> 0, ema_long |-> 0,
     std |-> 0, vol_avg |-> 0,
     adx |-> 0, vol_sma |-> 0, spread_proxy |-> 0, avg_spread |-> 0,
     slowk |-> 0, slowd |-> 0, prev_slowd |-> 0, cci |-> 0, obv |-> 0]

\* in how many fields bar b differs from bar q
Deviation(b, q) == Cardinality({f \in DOMAIN NoBar : b[f] # q[f]})

\* an order handed to the broker
Order(s, t, sz, lim, sl, tp) ==
    [side |-> s, type |-> t, size |-> sz, limit |-> lim, sl |-> sl, tp |-> tp]

MarketOrder(s, sz) == Order(s, "market", sz, Absent, Absent, Absent)

\* what a step did: the position it saw, the branch it took, the orders it
\* emitted, the exits (position.close() calls) it made, in order
NoOut ==
    [pos |-> "flat", branch |-> "init", orders |-> <<>>, exits |-> <<>>,
     raised |-> FALSE, skip |-> "none", sl_dist |-> 0, tp_dist |-> 0,
     streak |-> 0, ntrades |-> 0]

----------------------------------------------------------------------------
(* The broker (backtesting.Backtest): a market order emitted by a step is  *)
(* executed at the next bar's open, before the next step runs.             *)

\* the open prices an order can fill at; only variant 6 reads the fill price
FillPrices == IF variant = 6 THEN {90, 100, 110} ELSE {0}

\* an entry order executes (or is cancelled for lack of margin); an order
\* against the open trades closes one of them
Broker_fill(order_side, accepted, px) ==
    IF ~accepted
    THEN UNCHANGED <<side, trades, trade_entry_price>>
    ELSE IF side = "flat" \/ side = order_side
    THEN /\ trades' = trades + 1
         /\ side' = order_side
         /\ trade_entry_price' = px
    ELSE /\ trades' = trades - 1
         /\ side' = IF trades = 1 THEN "flat" ELSE side
         /\ trade_entry_price' = IF trades = 1 THEN 0 ELSE trade_entry_price

\* position.close(): every open trade is closed
Broker_close ==
    /\ trades' = 0
    /\ side' = "flat"
    /\ trade_entry_price' = 0

Broker_market ==
    /\ ~failed
    /\ pending # "none"
    /\ IF pending = "close"
       THEN Broker_close
       ELSE \E accepted \in BOOLEAN, px \in FillPrices :
                Broker_fill(IF pending = "buy" THEN "long" ELSE "short",
                            accepted, px)
    /\ pending' = "none"
    \* only variant 2 sizes from the equity of an earlier bar
    /\ equity_moved' = (equity_moved \/ (variant = 2 /\ pending = "close"))
    /\ UNCHANGED <<variant, failed, len_data, resting, bar, out>>
    /\ UNCHANGED <<fcVars, coVars, sharedVars, otherVars>>

\* the market order a step leaves in the queue
PendingOf(o) ==
    IF o.exits # <<>> THEN "close"
    ELSE IF o.orders = <<>> THEN "none"
    ELSE IF o.orders[Len(o.orders)].type # "market" THEN "none"
    ELSE o.orders[Len(o.orders)].side

----------------------------------------------------------------------------
(* Variant 1: FundingCrossover *)

ema_period == 20
volume_mult == 15000
FC_risk_per_trade == 100
trail_percent == 200
tp_percent == 400
max_hold_bars == 8

FC_Prices == {97, 100, 103, 105}
FC_Funding == {-1, 0, 1}

\* the bar an entry qualifies on; the entry bars deviate from it
FC_QualifyingBar ==
    [NoBar EXCEPT !.Close = 100, !.prev_close = 97, !.ema = 99,
                  !.prev_ema = 99, !.Volume = 20, !.avg_vol = 10,
                  !.funding = -1, !.prev_funding = 0, !.equity = 1000]

\* what the entry branch reads when the feed has a FundingRate column
FC_FlatBarsFunding ==
    { b \in { [NoBar EXCEPT !.Close = c, !.prev_close = pc, !.ema = e,
                            !.prev_ema = pe, !.Volume = v, !.avg_vol = av,
                            !.funding = f, !.prev_funding = pf, !.equity = eq] :
                c \in {100, 105}, pc \in {97, 100}, e \in {NaN, 99, 102},
                pe \in {NaN, 99}, v \in {10, 20}, av \in {NaN, 10},
                f \in FC_Funding, pf \in {-1, 0}, eq \in {100, 1000} } :
        Deviation(b, FC_QualifyingBar) <= MaxDeviation }

\* and when it has none: self.funding is None and is never read
FC_FlatBarsNoFunding ==
    { [b EXCEPT !.funding = 0, !.prev_funding = 0] :
        b \in { x \in FC_FlatBarsFunding : x.funding = -1 /\ x.prev_funding = 0 } }

\* what the exit branch reads: High, Low, Close and the funding rate
FC_OpenBarsFunding ==
    { [NoBar EXCEPT !.Low = l, !.Close = c, !.High = h, !.funding = f] :
        l \in FC_Prices, c \in FC_Prices, h \in FC_Prices, f \in FC_Funding }

FC_OpenBars(hf) ==
    { b \in FC_OpenBarsFunding :
        /\ b.Low <= b.Close /\ b.Close <= b.High
        /\ (~hf => b.funding = 0) }

FC_FlatBars(hf) == IF hf THEN FC_FlatBarsFunding ELSE FC_FlatBarsNoFunding

\* a FundingCrossover that trails from the high of the current bar alone
FC_update_max_high_current(mh, ep, current_high) == current_high

\* lines 32-35: the running maximum of High since entry
FC_update_max_high(mh, ep, current_high) ==
    IF mh # Absent THEN Max(mh, current_high) ELSE Max(ep, current_high)

\* a FundingCrossover that keeps the running maximum of the previous trade
FC_entry_max_high_carried(mh, price) == IF mh # Absent THEN mh ELSE price

\* line 99: the running maximum starts again at the entry price
FC_entry_max_high(mh, price) == price

\* line 40
FC_trail_hit(b, mh) == b.Low * Unit <= mh * (Unit - trail_percent)

\* line 47
FC_tp_hit(b, ep) == ep # Absent /\ b.Close * Unit >= ep * (Unit + tp_percent)

\* line 54
FC_funding_hit(b, hf) == hf /\ b.funding > 0

\* a FundingCrossover that holds one bar longer
FC_time_hit_late(idx, eb) == eb # Absent /\ idx - eb > max_hold_bars

\* line 61
FC_time_hit(idx, eb) == eb # Absent /\ idx - eb >= max_hold_bars

\* a FundingCrossover that checks the take-profit before the trailing stop
FC_exits_tp_first(trail, tp, fund, time) ==
    IF tp THEN <<"take_profit">>
    ELSE IF trail THEN <<"trailing_stop">>
    ELSE IF fund THEN <<"funding">>
    ELSE IF time THEN <<"time">>
    ELSE <<>>

\* lines 40-65: the position.close() calls of one step, in the order made;
\* every branch returns after its close
FC_exits(trail, tp, fund, time) ==
    IF trail THEN <<"trailing_stop">>
    ELSE IF tp THEN <<"take_profit">>
    ELSE IF fund THEN <<"funding">>
    ELSE IF time THEN <<"time">>
    ELSE <<>>

\* line 80
FC_price_cross(b) == Lt(b.prev_close, b.prev_ema) /\ Gt(b.Close, b.ema)

\* line 81
FC_vol_condition(b) ==
    ~IsNaN(b.avg_vol) /\ b.Volume * Unit > b.avg_vol * volume_mult

\* lines 83-85
FC_funding_condition(b, hf, idx) ==
    IF hf /\ idx > 0 THEN b.funding < 0 /\ b.prev_funding >= 0 ELSE TRUE

\* lines 90-94: int(round(equity * risk_per_trade / (price * trail_percent)))
FC_pos_size(equity, price) ==
    RoundHalfEven(equity * FC_risk_per_trade, price * trail_percent)

\* lines 30-68: a position is open
FC_next_open(b) ==
    LET mh == FC_update_max_high(max_high, entry_price, b.High)
        x  == FC_exits(FC_trail_hit(b, mh), FC_tp_hit(b, entry_price),
                       FC_funding_hit(b, has_funding), FC_time_hit(i, entry_bar))
        o  == [NoOut EXCEPT !.pos = side, !.branch = "open", !.exits = x]
    IN  /\ max_high' = mh
        /\ out' = o
        /\ pending' = PendingOf(o)
        /\ UNCHANGED <<entry_price, entry_bar, failed>>

\* lines 72-78: not enough bars for the moving average
FC_next_lookback ==
    /\ bar' = NoBar
    /\ out' = [NoOut EXCEPT !.pos = side, !.branch = "lookback"]
    /\ UNCHANGED <<max_high, entry_price, entry_bar, failed, pending>>

\* lines 80-106: flat, entry logic
FC_next_flat(b) ==
    LET qualifies == /\ FC_price_cross(b)
                     /\ FC_vol_condition(b)
                     /\ FC_funding_condition(b, has_funding, i)
        price == b.Close
    IN  IF ~qualifies
        THEN /\ out' = [NoOut EXCEPT !.pos = side, !.branch = "flat"]
             /\ UNCHANGED <<max_high, entry_price, entry_bar, failed, pending>>
        ELSE IF price * trail_percent = 0
        THEN \* division by a zero stop distance: int(round(inf)) raises
             /\ out' = [NoOut EXCEPT !.pos = side, !.branch = "flat",
                                     !.raised = TRUE]
             /\ failed' = TRUE
             /\ UNCHANGED <<max_high, entry_price, entry_bar, pending>>
        ELSE IF FC_pos_size(b.equity, price) > 0
        THEN LET o == [NoOut EXCEPT !.pos = side, !.branch = "flat",
                          !.orders = <<MarketOrder("buy",
                                         FC_pos_size(b.equity, price) * Unit)>>]
             IN  /\ out' = o
                 /\ pending' = PendingOf(o)
                 /\ entry_price' = price
                 /\ max_high' = FC_entry_max_high(max_high, price)
                 /\ entry_bar' = i
                 /\ UNCHANGED failed
        ELSE /\ out' = [NoOut EXCEPT !.pos = side, !.branch = "flat",
                                     !.skip = "size"]
             /\ UNCHANGED <<max_high, entry_price, entry_bar, failed, pending>>

\* what a call of fetch_funding_rates can meet: no time range given, an
\* exception in the request or in reading its answer, an empty answer, rows
\* that merge into the bars, rows whose merge raises
FC_FetchOutcomes == {"no_range", "raised", "empty", "rows", "rows_unmergeable"}

\* lines 116-139: the number of rows of the table returned (2 for any
\* table with rows); the early return, the empty answer and the except
\* clause all return pd.DataFrame()
fetch_funding_rates(met) ==
    IF met \in {"no_range", "raised", "empty"} THEN 0 ELSE 2

\* a __main__ that adds the FundingRate column whatever the fetch returned
FC_main_adds_column_always(rows, met) == TRUE

\* lines 159-171: FundingRate is added when the table has rows and the
\* merge does not raise; the except clause lets the run go on without it
FC_main_adds_column(rows, met) == rows > 0 /\ met # "rows_unmergeable"

\* lines 19-26: has_funding is whether self.data has a FundingRate column
FC_init_has_funding(column) == column

\* FundingCrossover.next
FC_next ==
    /\ variant = 1
    /\ ~failed
    /\ pending = "none"
    /\ i < MaxBars
    /\ IF side # "flat"
       THEN \E b \in FC_OpenBars(has_funding) : bar' = b /\ FC_next_open(b)
       ELSE IF i < ema_period \/ i < 1
       THEN FC_next_lookback
       ELSE \E b \in FC_FlatBars(has_funding) : bar' = b /\ FC_next_flat(b)
    /\ i' = i + 1
    /\ len_data' = len_data + 1
    /\ UNCHANGED <<variant, side, trades, trade_entry_price,
                   equity_moved, resting,
                   has_funding, funding_fetch>>
    /\ UNCHANGED <<coVars, otherVars>>

\* len(self.data) grows by one bar per step; it is counted up to the value
\* `most`, from which on every comparison the step makes with it stays the same
NextLen(n, most) == IF n < most THEN n + 1 ELSE n

----------------------------------------------------------------------------
(* Variant 5: CorrelativeReversion *)

lookback == 60
entry_z == 20000
exit_z == 5000
stop_z == 30000
CR_risk_per_trade == 100
stop_pct == 200

\* closes around a rolling mean of 100 with deviation 4: z-scores
\* -3.5, -2.5, -1, 0, 1, 2 (the entry threshold itself), 2.5, 3.5
CR_Prices == {86, 90, 96, 100, 104, 108, 110, 114}

CR_OpenBars ==
    { [NoBar EXCEPT !.Close = c, !.sma = m, !.stdev = sd] :
        c \in CR_Prices, m \in {NaN, 100}, sd \in {NaN, 0, 4} }

CR_FlatBars ==
    { [b EXCEPT !.equity = eq] : b \in CR_OpenBars, eq \in {100, 1000} }

\* a CorrelativeReversion whose guard forgets the zero deviation
CR_guard_no_zero(n, mean, sd) ==
    n < lookback \/ IsNaN(mean) \/ IsNaN(sd)

\* lines 20-28: the guard that returns before a z-score is computed
CR_guard(n, mean, sd) ==
    n < lookback \/ IsNaN(mean) \/ IsNaN(sd) \/ sd = 0

\* a CorrelativeReversion for which a z-score on the threshold is above it
CR_z_above_or_on(price, mean, sd, k) == (price - mean) * Unit >= k * sd

\* line 30, z = (price - mean) / sd compared with a threshold k (in 1/Unit);
\* the deviation is never negative
CR_z_above(price, mean, sd, k) == (price - mean) * Unit > k * sd
CR_z_below(price, mean, sd, k) == (price - mean) * Unit < -(k * sd)
CR_abs_z_below(price, mean, sd, k) == Abs(price - mean) * Unit < k * sd

\* a CorrelativeReversion whose stop-loss ignores the side of the position
CR_exits_any_side(pos, b) ==
    IF \/ CR_z_below(b.Close, b.sma, b.stdev, stop_z)
       \/ CR_z_above(b.Close, b.sma, b.stdev, stop_z)
    THEN <<"stop_loss">>
    ELSE IF CR_abs_z_below(b.Close, b.sma, b.stdev, exit_z)
    THEN <<"reversion">>
    ELSE <<>>

\* lines 35-47: the position.close() calls of one step; each returns
CR_exits(pos, b) ==
    IF pos = "long" /\ CR_z_below(b.Close, b.sma, b.stdev, stop_z)
    THEN <<"stop_loss">>
    ELSE IF pos = "short" /\ CR_z_above(b.Close, b.sma, b.stdev, stop_z)
    THEN <<"stop_loss">>
    ELSE IF CR_abs_z_below(b.Close, b.sma, b.stdev, exit_z)
    THEN <<"reversion">>
    ELSE <<>>

\* lines 56-57: max(0.0001, int(round(risk_amount / risk_distance))), in 1/Unit
CR_size(equity, price) ==
    Max(1, RoundHalfEven(equity * CR_risk_per_trade, price * stop_pct) * Unit)

\* a CorrelativeReversion that enters whatever the position
CR_may_enter_always(pos) == TRUE

\* line 50: the entry logic runs only when no position is open
CR_may_enter(pos) == pos = "flat"

\* lines 50-68: the orders of the entry logic
CR_entry_orders(pos, b) ==
    IF ~CR_may_enter(pos) THEN <<>>
    ELSE IF ~(b.Close * stop_pct > 0) THEN <<>>
    ELSE IF CR_z_above(b.Close, b.sma, b.stdev, entry_z)
    THEN <<MarketOrder("sell", CR_size(b.equity, b.Close))>>
    ELSE IF CR_z_below(b.Close, b.sma, b.stdev, entry_z)
    THEN <<MarketOrder("buy", CR_size(b.equity, b.Close))>>
    ELSE <<>>

\* lines 23-68, once enough bars exist
CR_step(b) ==
    IF CR_guard(len_data, b.sma, b.stdev)
    THEN /\ out' = [NoOut EXCEPT !.pos = side, !.branch = "guard"]
         /\ UNCHANGED <<pending, entry_bar>>
    ELSE LET x == IF side # "flat" THEN CR_exits(side, b) ELSE <<>>
             e == IF x # <<>> THEN <<>> ELSE CR_entry_orders(side, b)
             o == [NoOut EXCEPT !.pos = side,
                                !.branch = IF side = "flat" THEN "flat" ELSE "open",
                                !.exits = x, !.orders = e]
         IN  /\ out' = o
             /\ pending' = PendingOf(o)
             /\ entry_bar' = IF e # <<>> THEN len_data ELSE entry_bar

\* CorrelativeReversion.next
CR_next ==
    /\ variant = 5
    /\ ~failed
    /\ pending = "none"
    /\ IF len_data < lookback
       THEN /\ bar' = NoBar
            /\ out' = [NoOut EXCEPT !.pos = side, !.branch = "lookback"]
            /\ UNCHANGED <<pending, entry_bar>>
       ELSE \E b \in (IF side = "flat" THEN CR_FlatBars ELSE CR_OpenBars) :
                bar' = b /\ CR_step(b)
    /\ len_data' = NextLen(len_data, lookback + 1)
    /\ UNCHANGED <<variant, failed, side, trades, trade_entry_price,
                   equity_moved, resting,
                   entry_price>>
    /\ UNCHANGED <<fcVars, coVars, otherVars>>

----------------------------------------------------------------------------
(* Variant 6: HolisticDecomposition *)

HD_risk_per_trade == 100
HD_sl_mult == 15000
rr_ratio == 3
rsi_long_threshold == 55
rsi_short_threshold == 45
vol_multiplier == 15000

\* a bar on which the long entry qualifies, and one for the short entry
HD_LongBar ==
    [NoBar EXCEPT !.Close = 120, !.ema_short = 110, !.ema_long = 100,
                  !.rsi = 60, !.Volume = 20, !.avg_vol = 10, !.atr = 10,
                  !.equity = 10000]

HD_ShortBar ==
    [NoBar EXCEPT !.Close = 80, !.ema_short = 90, !.ema_long = 100,
                  !.rsi = 40, !.Volume = 20, !.avg_vol = 10, !.atr = 10,
                  !.equity = 10000]

\* a market that never moved: every true range is 0, so ATR is 0, both
\* averages sit at the price and RSI is 0
HD_StillBar ==
    [NoBar EXCEPT !.Close = 100, !.ema_short = 100, !.ema_long = 100,
                  !.rsi = 0, !.Volume = 10, !.avg_vol = 10, !.atr = 0,
                  !.equity = 10000]

\* the bars of a moving market: the fields are those next() reads at its
\* top (lines 53-62); equity is self._broker._cash
HD_Bars ==
    { b \in { [NoBar EXCEPT !.Close = c, !.ema_short = es, !.ema_long = el,
                            !.rsi = r, !.Volume = v, !.avg_vol = av,
                            !.atr = a, !.equity = eq] :
                c \in {50, 80, 100, 120, 150}, es \in {NaN, 90, 110},
                el \in {NaN, 100}, r \in {NaN, 40, 50, 60}, v \in {10, 20},
                av \in {NaN, 10}, a \in {NaN, 10, 20}, eq \in {100, 10000} } :
        \/ Deviation(b, HD_LongBar) <= MaxDeviation
        \/ Deviation(b, HD_ShortBar) <= MaxDeviation }

\* ATR is 0 only while no bar has moved since the first one: the still bar
\* can only be the first bar a run steps on
HD_InputBars(first) == IF first THEN HD_Bars \cup {HD_StillBar} ELSE HD_Bars

\* line 67
HD_stop_distance(atr) == HD_sl_mult * atr

\* line 68: the division and int(round(.)) raise on a NaN or zero distance
HD_size_raises(atr) == IsNaN(atr) \/ HD_stop_distance(atr) = 0

\* a HolisticDecomposition without the minimum size
HD_position_size_unclamped(cash, atr) ==
    RoundHalfEven(cash * HD_risk_per_trade, HD_stop_distance(atr)) * Unit

\* line 68: max(1, int(round(risk_amount / stop_distance))), in 1/Unit
HD_position_size(cash, atr) ==
    Max(1, RoundHalfEven(cash * HD_risk_per_trade, HD_stop_distance(atr))) * Unit

\* a HolisticDecomposition whose long entry ignores the regime filter
HD_long_signal_no_regime(b) ==
    /\ Gt(b.Close, b.ema_short)
    /\ Gt(b.rsi, rsi_long_threshold)
    /\ ~IsNaN(b.avg_vol) /\ b.Volume * Unit > vol_multiplier * b.avg_vol

\* lines 71-74
HD_long_signal(b) ==
    /\ Gt(b.Close, b.ema_short)
    /\ Gt(b.ema_short, b.ema_long)
    /\ Gt(b.rsi, rsi_long_threshold)
    /\ ~IsNaN(b.avg_vol) /\ b.Volume * Unit > vol_multiplier * b.avg_vol

\* lines 81-84
HD_short_signal(b) ==
    /\ Lt(b.Close, b.ema_short)
    /\ Lt(b.ema_short, b.ema_long)
    /\ Lt(b.rsi, rsi_short_threshold)
    /\ ~IsNaN(b.avg_vol) /\ b.Volume * Unit > vol_multiplier * b.avg_vol

\* lines 77, 87: the ATR of the entry bar is stored
HD_entry_atr(old, current_atr) == current_atr

\* a HolisticDecomposition that takes the current ATR on every bar
HD_exit_atr_current(old, current_atr) == current_atr

\* lines 92-93: the fallback when no entry ATR was stored
HD_exit_atr(old, current_atr) == IF IsNaN(old) THEN current_atr ELSE old

\* line 96, in 1/Unit
HD_sl_dist(ea) == HD_sl_mult * ea

\* line 97
HD_tp_dist(ea) == rr_ratio * HD_sl_dist(ea)

\* a HolisticDecomposition that applies the long levels to short positions too
HD_exits_long_levels(pos, price, ep, ea) ==
    IF IsNaN(ea) THEN <<>>
    ELSE IF price * Unit <= ep * Unit - HD_sl_dist(ea) THEN <<"stop_loss">>
    ELSE IF price * Unit >= ep * Unit + HD_tp_dist(ea) THEN <<"take_profit">>
    ELSE <<>>

\* lines 99-119: stop first, then target; nothing compares with a NaN level
HD_exits(pos, price, ep, ea) ==
    IF IsNaN(ea) THEN <<>>
    ELSE IF pos = "long"
    THEN IF price * Unit <= ep * Unit - HD_sl_dist(ea) THEN <<"stop_loss">>
         ELSE IF price * Unit >= ep * Unit + HD_tp_dist(ea) THEN <<"take_profit">>
         ELSE <<>>
    ELSE IF price * Unit >= ep * Unit + HD_sl_dist(ea) THEN <<"stop_loss">>
         ELSE IF price * Unit <= ep * Unit - HD_tp_dist(ea) THEN <<"take_profit">>
         ELSE <<>>

\* lines 66-88: flat
HD_next_flat(b) ==
    IF HD_size_raises(b.atr)
    THEN /\ out' = [NoOut EXCEPT !.pos = side, !.branch = "flat", !.raised = TRUE]
         /\ failed' = TRUE
         /\ UNCHANGED <<pending, entry_atr>>
    ELSE LET sz == HD_position_size(b.equity, b.atr)
             e  == IF HD_long_signal(b) THEN <<MarketOrder("buy", sz)>>
                   ELSE IF HD_short_signal(b) THEN <<MarketOrder("sell", sz)>>
                   ELSE <<>>
             o  == [NoOut EXCEPT !.pos = side, !.branch = "flat", !.orders = e]
         IN  /\ out' = o
             /\ pending' = PendingOf(o)
             /\ entry_atr' = IF e # <<>> THEN HD_entry_atr(entry_atr, b.atr)
                             ELSE entry_atr
             /\ UNCHANGED failed

\* lines 91-119: a position is open
HD_next_open(b) ==
    LET ea == HD_exit_atr(entry_atr, b.atr)
        x  == HD_exits(side, b.Close, trade_entry_price, ea)
        o  == [NoOut EXCEPT !.pos = side, !.branch = "open", !.exits = x,
                            !.sl_dist = IF IsNaN(ea) THEN NaN ELSE HD_sl_dist(ea),
                            !.tp_dist = IF IsNaN(ea) THEN NaN ELSE HD_tp_dist(ea)]
    IN  /\ entry_atr' = ea
        /\ out' = o
        /\ pending' = PendingOf(o)
        /\ UNCHANGED failed

\* HolisticDecomposition.next
HD_next ==
    /\ variant = 6
    /\ ~failed
    /\ pending = "none"
    /\ \E b \in HD_InputBars(out.branch = "init") :
         /\ bar' = b
         /\ IF side = "flat" THEN HD_next_flat(b) ELSE HD_next_open(b)
    /\ UNCHANGED <<variant, len_data, side, trades, trade_entry_price,
                   equity_moved, resting>>
    /\ UNCHANGED <<fcVars, coVars, sharedVars, max_concurrent, trade_bars>>

----------------------------------------------------------------------------
(* Variant 4: NicheCostReversal *)

NCR_min_len == 20
NCR_std_mult == 2
NCR_rsi_oversold == 30
NCR_rsi_overbought == 70
NCR_max_trade_bars == 480
NCR_sl_factor == 9600
NCR_tp_factor == 10750
NCR_risk == 100

\* EMA, STDDEV and RSI are all computed from Close: a gap in Close leaves
\* the three undefined together
NCR_Indicators ==
    { [ema |-> 110, std |-> 5, rsi |-> r] : r \in {25, 50, 75} }
    \cup { [ema |-> NaN, std |-> NaN, rsi |-> NaN] }

NCR_FlatBars ==
    { [NoBar EXCEPT !.Close = c, !.ema = k.ema, !.std = k.std, !.rsi = k.rsi,
                    !.Volume = v, !.vol_avg = va, !.equity = eq] :
        c \in {90, 100}, k \in NCR_Indicators, v \in {10, 20},
        va \in {NaN, 15}, eq \in {100, 100000} }

NCR_OpenBars ==
    { [NoBar EXCEPT !.Close = c, !.ema = k.ema, !.std = k.std, !.rsi = k.rsi] :
        c \in {90, 100, 115}, k \in NCR_Indicators }

\* lines 20-23
NCR_entry_signal(n, b) ==
    /\ n > NCR_min_len
    /\ ~IsNaN(b.ema) /\ ~IsNaN(b.std) /\ b.Close < b.ema - NCR_std_mult * b.std
    /\ Lt(b.rsi, NCR_rsi_oversold)
    /\ Gt(b.Volume, b.vol_avg)

\* lines 26-27, in 1/Unit
NCR_sl_price(price) == price * NCR_sl_factor
NCR_tp_price(price) == price * NCR_tp_factor

\* lines 31-34: int(round(0.01 * equity / (entry_price - sl_price)))
NCR_size(equity, price) ==
    RoundHalfEven(equity * NCR_risk, price * Unit - NCR_sl_price(price))

\* a NicheCostReversal that lets the holding period run one bar over
NCR_exit_signal_late(b, tb) ==
    Ge(b.Close, b.ema) \/ Gt(b.rsi, NCR_rsi_overbought)
      \/ tb > NCR_max_trade_bars + 1

\* a NicheCostReversal without the overbought exit
NCR_exit_signal_no_rsi(b, tb) ==
    Ge(b.Close, b.ema) \/ tb > NCR_max_trade_bars

\* lines 44-46
NCR_exit_signal(b, tb) ==
    Ge(b.Close, b.ema) \/ Gt(b.rsi, NCR_rsi_overbought) \/ tb > NCR_max_trade_bars

\* lines 17-39: flat
NCR_next_flat(b) ==
    IF ~NCR_entry_signal(len_data, b)
    THEN /\ out' = [NoOut EXCEPT !.pos = side, !.branch = "flat"]
         /\ trade_bars' = 0
         /\ UNCHANGED <<pending, failed>>
    ELSE IF b.Close * Unit - NCR_sl_price(b.Close) = 0
    THEN /\ out' = [NoOut EXCEPT !.pos = side, !.branch = "flat", !.raised = TRUE]
         /\ failed' = TRUE
         /\ trade_bars' = 0
         /\ UNCHANGED pending
    ELSE IF NCR_size(b.equity, b.Close) > 0
    THEN LET o == [NoOut EXCEPT !.pos = side, !.branch = "flat",
                      !.orders = <<Order("buy", "market",
                                         NCR_size(b.equity, b.Close) * Unit,
                                         Absent, NCR_sl_price(b.Close),
                                         NCR_tp_price(b.Close))>>]
         IN  /\ out' = o
             /\ pending' = PendingOf(o)
             /\ trade_bars' = 1
             /\ UNCHANGED failed
    ELSE /\ out' = [NoOut EXCEPT !.pos = side, !.branch = "flat", !.skip = "size"]
         /\ trade_bars' = 0
         /\ UNCHANGED <<pending, failed>>

\* lines 41-49: a position is open
NCR_next_open(b) ==
    LET tb == trade_bars + 1
        x  == IF NCR_exit_signal(b, tb) THEN <<"exit">> ELSE <<>>
        o  == [NoOut EXCEPT !.pos = side, !.branch = "open", !.exits = x]
    IN  /\ out' = o
        /\ pending' = PendingOf(o)
        /\ trade_bars' = IF x # <<>> THEN 0 ELSE tb
        /\ UNCHANGED failed

\* NicheCostReversal.next
NCR_next ==
    /\ variant = 4
    /\ ~failed
    /\ pending = "none"
    /\ IF side = "flat"
       THEN \E b \in NCR_FlatBars : bar' = b /\ NCR_next_flat(b)
       ELSE \E b \in NCR_OpenBars : bar' = b /\ NCR_next_open(b)
    /\ len_data' = NextLen(len_data, NCR_min_len + 2)
    /\ UNCHANGED <<variant, side, trades, trade_entry_price, equity_moved, resting>>
    /\ UNCHANGED <<fcVars, coVars, sharedVars, max_concurrent, entry_atr>>

\* the broker executes a trade's attached stop-loss or take-profit order
\* when a bar reaches its level (variants 3 and 4 attach them)
Broker_stop_target ==
    /\ ~failed
    /\ variant \in {3, 4}
    /\ pending = "none"
    /\ trades > 0
    /\ trades' = trades - 1
    /\ side' = IF trades = 1 THEN "flat" ELSE side
    /\ UNCHANGED <<variant, failed, len_data, trade_entry_price,
                   equity_moved, pending,
                   resting, bar, out>>
    /\ UNCHANGED <<fcVars, coVars, sharedVars, otherVars>>

----------------------------------------------------------------------------
(* Variant 3: OpportunisticMaker *)

OM_vol_mult == 15000
atr_threshold == 50
spread_mult == 11000
limit_offset_mult == 5000
OM_sl_mult == 10000
tp_mult == 20000
risk_pct == 50
OM_max_concurrent == 5
adx_threshold == 25
min_bars == 50

\* a bar on which the maker entry qualifies; spread values are in 1/Unit
OM_QualifyingBar ==
    [NoBar EXCEPT !.Close = 1000, !.Volume = 20, !.vol_sma = 10, !.atr = 1,
                  !.adx = 20, !.spread_proxy = 30, !.avg_spread = 20,
                  !.equity = 2000]

\* ATR is 0 only when no bar ever had a range, and then the spread proxy
\* (High - Low) / Close of the bar is 0 too
OM_Bars ==
    { b \in { [NoBar EXCEPT !.Close = 1000, !.Volume = v, !.vol_sma = vs,
                            !.atr = a, !.adx = ad, !.spread_proxy = sp,
                            !.avg_spread = asp, !.equity = eq] :
                v \in {NaN, 10, 20}, vs \in {NaN, 10}, a \in {NaN, 0, 1, 10},
                ad \in {20, 30}, sp \in {0, 20, 30}, asp \in {20},
                eq \in {1, 2000} } :
        /\ Deviation(b, OM_QualifyingBar) <= MaxDeviation
        /\ (b.atr = 0 => b.spread_proxy = 0) }

\* line 48
OM_any_nan(b) ==
    \/ IsNaN(b.Volume) \/ IsNaN(b.vol_sma) \/ IsNaN(b.atr)
    \/ IsNaN(b.adx) \/ IsNaN(b.spread_proxy) \/ IsNaN(b.avg_spread)

\* lines 52-55
OM_vol_spike(b) == b.Volume * Unit > OM_vol_mult * b.vol_sma
OM_low_vol(b) == b.atr * Unit < atr_threshold * b.Close
OM_widening_spread(b) == b.spread_proxy * Unit > spread_mult * b.avg_spread
OM_ranging_market(b) == b.adx < adx_threshold

\* line 61
OM_signal(b) ==
    OM_vol_spike(b) /\ OM_low_vol(b) /\ OM_widening_spread(b) /\ OM_ranging_market(b)

\* line 57
OM_at_cap(n, cap) == n >= cap

\* line 65, in 1/Unit
OM_sl_dist(atr) == OM_sl_mult * atr

\* line 80, in 1/Unit
OM_tp_dist(atr) == tp_mult * atr

\* lines 66-68: round(equity * risk_pct / sl_dist / curr_price, 4), in 1/Unit
OM_size_per_side(equity, atr, price) ==
    RoundHalfEven(equity * risk_pct * Unit, OM_sl_dist(atr) * price)

\* an OpportunisticMaker whose ask stands a full ATR above the close
OM_ask_price_full_atr(price, atr) == price * Unit + Unit * atr

\* lines 75-77, in 1/Unit
OM_bid_price(price, atr) == price * Unit - limit_offset_mult * atr
OM_ask_price(price, atr) == price * Unit + limit_offset_mult * atr

\* lines 83-97: the two resting orders of one qualifying bar
OM_orders(b) ==
    LET sz  == OM_size_per_side(b.equity, b.atr, b.Close)
        bid == OM_bid_price(b.Close, b.atr)
        ask == OM_ask_price(b.Close, b.atr)
    IN  << Order("buy", "limit", sz, bid, bid - OM_sl_dist(b.atr),
                 bid + OM_tp_dist(b.atr)),
           Order("sell", "limit", sz, ask, ask + OM_sl_dist(b.atr),
                 ask - OM_tp_dist(b.atr)) >>

\* a bar that meets the entry contract: the four conditions and a positive size
OM_qualifies(b) ==
    /\ ~OM_any_nan(b)
    /\ OM_signal(b)
    /\ OM_sl_dist(b.atr) * b.Close # 0
    /\ OM_size_per_side(b.equity, b.atr, b.Close) > 0

\* how many bars in a row met the entry contract, this one included
\* (4 stands for more than three)
OM_streak(b) ==
    IF ~OM_qualifies(b) THEN 0
    ELSE IF out.streak < 4 THEN out.streak + 1 ELSE 4

\* lines 39-104, once min_bars bars exist
OM_step(b) ==
    LET base == [NoOut EXCEPT !.pos = side, !.branch = "flat",
                              !.streak = OM_streak(b), !.ntrades = trades]
    IN  IF OM_any_nan(b)
        THEN /\ out' = [base EXCEPT !.branch = "guard"]
             /\ UNCHANGED <<resting, failed>>
        ELSE IF OM_at_cap(trades, max_concurrent)
        THEN /\ out' = [base EXCEPT !.skip = "max_concurrent"]
             /\ UNCHANGED <<resting, failed>>
        ELSE IF ~OM_signal(b)
        THEN /\ out' = base
             /\ UNCHANGED <<resting, failed>>
        ELSE IF OM_sl_dist(b.atr) * b.Close = 0
        THEN \* a zero stop distance: the size is not a finite number and
             \* Strategy.buy raises on it
             /\ out' = [base EXCEPT !.raised = TRUE]
             /\ failed' = TRUE
             /\ UNCHANGED resting
        ELSE IF OM_size_per_side(b.equity, b.atr, b.Close) <= 0
        THEN /\ out' = [base EXCEPT !.skip = "size"]
             /\ UNCHANGED <<resting, failed>>
        ELSE /\ out' = [base EXCEPT !.orders = OM_orders(b)]
             /\ resting' = [buy |-> resting.buy + 1, sell |-> resting.sell + 1]
             /\ UNCHANGED failed

\* OpportunisticMaker.next
OM_next ==
    /\ variant = 3
    /\ ~failed
    /\ resting.buy < MaxResting /\ resting.sell < MaxResting
    /\ IF len_data < min_bars
       THEN /\ bar' = NoBar
            /\ out' = [NoOut EXCEPT !.pos = side, !.branch = "lookback"]
            /\ UNCHANGED <<resting, failed>>
       ELSE \E b \in OM_Bars : bar' = b /\ OM_step(b)
    /\ len_data' = NextLen(len_data, min_bars + 1)
    /\ UNCHANGED <<variant, side, trades, trade_entry_price, equity_moved,
                   pending>>
    /\ UNCHANGED <<fcVars, coVars, sharedVars, otherVars>>

\* the broker executes one resting limit order when a bar reaches its price
Broker_limit ==
    /\ ~failed
    /\ \E s \in {"buy", "sell"}, accepted \in BOOLEAN :
         /\ resting[s] > 0
         /\ resting' = [resting EXCEPT ![s] = @ - 1]
         /\ Broker_fill(IF s = "buy" THEN "long" ELSE "short", accepted, 0)
    /\ UNCHANGED <<variant, failed, len_data, pending, bar, out, equity_moved>>
    /\ UNCHANGED <<fcVars, coVars, sharedVars, otherVars>>

----------------------------------------------------------------------------
(* Variant 2: ConfluentOversold *)

stoch_oversold == 20
cci_oversold == -100
profit_target == 500
stop_loss_pct == 400
CO_risk_per_trade == 100
trail_be == 200
CO_min_len == 20

CO_Obv == {NaN, 50, 60}

\* what every step reads: Low, Close, Volume and OBV
CO_DataBars ==
    { [NoBar EXCEPT !.Low = l, !.Close = c, !.obv = ob] :
        l \in {94, 98, 100}, c \in {95, 100, 102, 103, 106}, ob \in CO_Obv }

CO_OpenBars == { b \in CO_DataBars : b.Low <= b.Close }

\* a bar on which the entry qualifies
CO_QualifyingBar ==
    [NoBar EXCEPT !.Low = 98, !.Close = 100, !.obv = 50, !.Volume = 10,
                  !.vol_sma = 20, !.slowk = 15, !.slowd = 10,
                  !.prev_slowd = 12, !.cci = -120]

\* what the entry logic reads on top of that
CO_FlatBars ==
    { b \in { [d EXCEPT !.Volume = v, !.vol_sma = vs, !.slowk = k, !.slowd = sd,
                        !.prev_slowd = psd, !.cci = cc] :
                d \in CO_OpenBars, v \in {10, 30}, vs \in {NaN, 20},
                k \in {NaN, 15, 25}, sd \in {NaN, 10}, psd \in {NaN, 8, 12},
                cc \in {NaN, -120, -80} } :
        \* a gap in Volume leaves SMA(Volume) and OBV undefined together
        /\ IsNaN(b.obv) <=> IsNaN(b.vol_sma)
        /\ Deviation(IF IsNaN(b.obv) THEN [b EXCEPT !.obv = CO_QualifyingBar.obv]
                                     ELSE b, CO_QualifyingBar) <= MaxDeviation }

\* self.equity on the bars of the entry logic, which sizes from
\* initial_capital (line 32) and never reads it: the initial capital until
\* a trade has closed, possibly another value afterwards
CO_Equity(capital, moved) ==
    IF moved THEN {capital, (11 * capital) \div 10} ELSE {capital}

CO_EntryBars(capital, moved) ==
    { [b EXCEPT !.equity = eq] : b \in CO_FlatBars, eq \in CO_Equity(capital, moved) }

\* lines 54-59
CO_signal(b) ==
    /\ Lt(b.slowk, stoch_oversold)
    /\ Lt(b.slowd, b.prev_slowd)
    /\ Lt(b.cci, cci_oversold)
    /\ Lt(b.Volume, b.vol_sma)

\* a ConfluentOversold that substitutes a minimum size of one unit
CO_position_size_units_min1(capital, close) ==
    Max(1, RoundHalfEven(capital * CO_risk_per_trade, close * stop_loss_pct))

\* lines 61-64: max(0, int(round(initial_capital * risk / (close * stop_pct))))
CO_position_size_units(capital, close) ==
    Max(0, RoundHalfEven(capital * CO_risk_per_trade, close * stop_loss_pct))

\* lines 69-70, in 1/Unit
CO_stop_loss(ep) == ep * (Unit - stop_loss_pct)
CO_take_profit(ep) == ep * (Unit + profit_target)

\* a ConfluentOversold that trails the stop to the trigger level, above
\* breakeven
CO_trailed_stop_above_entry(sl, ep, close) ==
    IF close * Unit > ep * (Unit + trail_be) /\ sl < ep * Unit
    THEN ep * (Unit + trail_be) ELSE sl

\* a ConfluentOversold whose stop is at breakeven only on the bars that
\* close above the trigger
CO_trailed_stop_while_above(sl, ep, close) ==
    IF close * Unit > ep * (Unit + trail_be)
    THEN ep * Unit ELSE ep * (Unit - stop_loss_pct)

\* lines 81-83: the stop is moved to the entry price once the close is
\* trail_be above it
CO_trailed_stop(sl, ep, close) ==
    IF close * Unit > ep * (Unit + trail_be) /\ sl < ep * Unit
    THEN ep * Unit ELSE sl

\* lines 100-101
CO_divergence(clp, clo, plp, plo) == clp < plp /\ Gt(clo, plo)

\* a ConfluentOversold that looks for the divergence before the price levels
CO_exits_divergence_first(close, sl, tp, clp, clo, plp, plo) ==
    IF clp < plp /\ Gt(clo, plo) THEN <<"divergence">>
    ELSE IF close * Unit >= tp THEN <<"take_profit">>
    ELSE IF close * Unit <= sl THEN <<"stop_loss">>
    ELSE <<>>

\* lines 87-104: the position.close() calls of one step
CO_exits(close, sl, tp, clp, clo, plp, plo) ==
    IF close * Unit >= tp THEN <<"take_profit">>
    ELSE IF close * Unit <= sl THEN <<"stop_loss">>
    ELSE IF CO_divergence(clp, clo, plp, plo) THEN <<"divergence">>
    ELSE <<>>

\* a ConfluentOversold that takes the low of every bar for the swing low
CO_new_low_every_bar(low, tracked) == TRUE

\* lines 41-49: the swing-low pairs
CO_new_low(low, tracked) == low < tracked

\* lines 34-104: flat
CO_next_flat(b) ==
    LET plp == IF CO_new_low(b.Low, previous_low_price) THEN b.Low
               ELSE previous_low_price
        plo == IF CO_new_low(b.Low, previous_low_price) THEN b.obv
               ELSE previous_low_obv
        base == [NoOut EXCEPT !.pos = side, !.branch = "flat"]
        keep == /\ previous_low_price' = plp
                /\ previous_low_obv' = plo
                /\ UNCHANGED <<entry_price, stop_loss, take_profit,
                               current_low_price, current_low_obv, pending>>
    IN  IF ~(len_data > CO_min_len) \/ ~CO_signal(b)
        THEN out' = base /\ keep /\ UNCHANGED failed
        ELSE IF b.Close * stop_loss_pct = 0
        THEN out' = [base EXCEPT !.raised = TRUE] /\ keep /\ failed' = TRUE
        ELSE IF CO_position_size_units(initial_capital, b.Close) > 0
        THEN LET o == [base EXCEPT !.orders =
                         <<MarketOrder("buy",
                             CO_position_size_units(initial_capital, b.Close)
                               * Unit)>>]
             IN  /\ out' = o
                 /\ pending' = PendingOf(o)
                 /\ entry_price' = b.Close
                 /\ stop_loss' = CO_stop_loss(b.Close)
                 /\ take_profit' = CO_take_profit(b.Close)
                 /\ previous_low_price' = b.Low
                 /\ previous_low_obv' = b.obv
                 /\ current_low_price' = b.Low
                 /\ current_low_obv' = b.obv
                 /\ UNCHANGED failed
        ELSE out' = [base EXCEPT !.skip = "size"] /\ keep /\ UNCHANGED failed

\* lines 34-104: a position is open
CO_next_open(b) ==
    LET clp == IF CO_new_low(b.Low, current_low_price) THEN b.Low
               ELSE current_low_price
        clo == IF CO_new_low(b.Low, current_low_price) THEN b.obv
               ELSE current_low_obv
        base == [NoOut EXCEPT !.pos = side, !.branch = "open"]
    IN  IF entry_price = Absent
        THEN \* arithmetic on None raises
             /\ out' = [base EXCEPT !.raised = TRUE]
             /\ failed' = TRUE
             /\ current_low_price' = clp
             /\ current_low_obv' = clo
             /\ UNCHANGED <<entry_price, stop_loss, take_profit, pending>>
        ELSE LET sl == CO_trailed_stop(stop_loss, entry_price, b.Close)
                 x  == CO_exits(b.Close, sl, take_profit, clp, clo,
                                previous_low_price, previous_low_obv)
                 o  == [base EXCEPT !.exits = x]
             IN  /\ out' = o
                 /\ pending' = PendingOf(o)
                 /\ UNCHANGED failed
                 /\ IF x # <<>>
                    THEN \* _reset_states, lines 106-112
                         /\ entry_price' = Absent
                         /\ stop_loss' = Absent
                         /\ take_profit' = Absent
                         /\ current_low_price' = PosInf
                         /\ current_low_obv' = NegInf
                    ELSE /\ stop_loss' = sl
                         /\ current_low_price' = clp
                         /\ current_low_obv' = clo
                         /\ UNCHANGED <<entry_price, take_profit>>

\* ConfluentOversold.next
CO_next ==
    /\ variant = 2
    /\ ~failed
    /\ pending = "none"
    /\ IF side # "flat"
       THEN /\ \E b \in CO_OpenBars : bar' = b /\ CO_next_open(b)
            /\ UNCHANGED <<previous_low_price, previous_low_obv>>
       ELSE IF len_data > CO_min_len
       THEN \E b \in CO_EntryBars(initial_capital, equity_moved) :
                bar' = b /\ CO_next_flat(b)
       ELSE \E b \in CO_OpenBars : bar' = b /\ CO_next_flat(b)
    /\ len_data' = NextLen(len_data, CO_min_len + 2)
    /\ UNCHANGED <<variant, side, trades, trade_entry_price, equity_moved,
                   resting,
                   initial_capital, entry_bar>>
    /\ UNCHANGED <<fcVars, otherVars>>

----------------------------------------------------------------------------
(* Specifications *)

\* a run that makes its first call before any bar is in the window, so
\* that the index self.i lies past the end of the window
FirstLen_empty(v) == 0

\* len(self.data) at the first call of next(). Backtest.run starts at the
\* bar after the last one on which an indicator declared with self.I is
\* still NaN: variant 1 declares EMA(Close, 20) and SMA(Volume, 20), NaN on
\* the first 19 bars, so its first call is on bar 21 while self.i is 0.
\* The other variants guard on len(self.data) themselves and are started
\* from the first bar, which keeps their guards reachable.
FirstLen(v) == IF v = 1 THEN ema_period + 1 ELSE 1

\* the state after Strategy.init(), before the first bar
InitCommon ==
    /\ failed = FALSE
    /\ len_data = FirstLen(variant)
    /\ side = "flat"
    /\ trades = 0
    /\ trade_entry_price = 0
    /\ pending = "none"
    /\ resting = [buy |-> 0, sell |-> 0]
    /\ bar = NoBar
    /\ out = NoOut
    /\ i = 0
    /\ max_high = Absent
    /\ entry_price = Absent
    /\ entry_bar = Absent
    /\ stop_loss = Absent
    /\ take_profit = Absent
    /\ previous_low_price = PosInf
    /\ previous_low_obv = NegInf
    /\ current_low_price = PosInf
    /\ current_low_obv = NegInf
    /\ equity_moved = FALSE
    /\ trade_bars = 0
    /\ entry_atr = NaN

\* T03 __main__ and FundingCrossover.init: the fetch meets one of its
\* outcomes, the bars get a FundingRate column or not, and has_funding says
\* whether init found the column
InitV1 ==
    /\ variant = 1
    /\ funding_fetch \in FC_FetchOutcomes
    /\ has_funding = FC_init_has_funding(
                        FC_main_adds_column(fetch_funding_rates(funding_fetch),
                                            funding_fetch))
    /\ initial_capital = 0
    /\ max_concurrent = 0
    /\ InitCommon

\* ConfluentOversold.init: initial_capital is the equity the run starts with
InitV2 ==
    /\ variant = 2
    /\ has_funding = FALSE
    /\ funding_fetch = "none"
    /\ initial_capital \in {100, 100000}
    /\ max_concurrent = 0
    /\ InitCommon

NextV2 == CO_next \/ Broker_market

SpecV2 == InitV2 /\ [][NextV2]_vars

\* OpportunisticMaker: max_concurrent is a parameter of the run, 5 unless
\* the run sets it
InitV3 ==
    /\ variant = 3
    /\ has_funding = FALSE
    /\ funding_fetch = "none"
    /\ initial_capital = 0
    /\ max_concurrent \in {2, OM_max_concurrent}
    /\ InitCommon

NextV3 == OM_next \/ Broker_limit \/ Broker_stop_target

SpecV3 == InitV3 /\ [][NextV3]_vars

NextV1 == FC_next \/ Broker_market

SpecV1 == InitV1 /\ [][NextV1]_vars

InitV4 ==
    /\ variant = 4
    /\ has_funding = FALSE
    /\ funding_fetch = "none"
    /\ initial_capital = 0
    /\ max_concurrent = 0
    /\ InitCommon

NextV4 == NCR_next \/ Broker_market \/ Broker_stop_target

SpecV4 == InitV4 /\ [][NextV4]_vars

InitV5 ==
    /\ variant = 5
    /\ has_funding = FALSE
    /\ funding_fetch = "none"
    /\ initial_capital = 0
    /\ max_concurrent = 0
    /\ InitCommon

NextV5 == CR_next \/ Broker_market

SpecV5 == InitV5 /\ [][NextV5]_vars

InitV6 ==
    /\ variant = 6
    /\ has_funding = FALSE
    /\ funding_fetch = "none"
    /\ initial_capital = 0
    /\ max_concurrent = 0
    /\ InitCommon

NextV6 == HD_next \/ Broker_market

SpecV6 == InitV6 /\ [][NextV6]_vars

\* a run of any one of the six strategies
Init == InitV1 \/ InitV2 \/ InitV3 \/ InitV4 \/ InitV5 \/ InitV6

Next ==
    \/ FC_next
    \/ CO_next
    \/ OM_next
    \/ NCR_next
    \/ CR_next
    \/ HD_next
    \/ Broker_market
    \/ Broker_limit
    \/ Broker_stop_target

Spec == Init /\ [][Next]_vars

----------------------------------------------------------------------------
(* Properties *)

\* the last transition was a strategy step (out holds what it did)
Stepped == out.branch # "init"

NoAction == out.orders = <<>> /\ out.exits = <<>>

\* an indicator the branch taken by the last step reads is undefined
IndicatorUndefined ==
    /\ Stepped
    /\ CASE variant = 1 ->
              \/ out.branch = "lookback"
              \/ /\ out.branch = "flat"
                 /\ IsNaN(bar.ema) \/ IsNaN(bar.prev_ema) \/ IsNaN(bar.avg_vol)
         [] variant = 2 ->
              \/ IsNaN(bar.obv)
              \/ /\ out.branch = "flat"
                 /\ \/ IsNaN(bar.slowk) \/ IsNaN(bar.slowd) \/ IsNaN(bar.prev_slowd)
                    \/ IsNaN(bar.cci) \/ IsNaN(bar.vol_sma)
         [] variant = 3 ->
              \/ out.branch = "lookback"
              \/ IsNaN(bar.Volume) \/ IsNaN(bar.vol_sma) \/ IsNaN(bar.atr)
              \/ IsNaN(bar.adx) \/ IsNaN(bar.avg_spread)
         [] variant = 4 ->
              \/ IsNaN(bar.ema) \/ IsNaN(bar.rsi)
              \/ out.branch = "flat" /\ (IsNaN(bar.std) \/ IsNaN(bar.vol_avg))
         [] variant = 5 ->
              out.branch = "lookback" \/ IsNaN(bar.sma) \/ IsNaN(bar.stdev)
         [] variant = 6 ->
              /\ out.branch = "flat"
              /\ \/ IsNaN(bar.atr) \/ IsNaN(bar.rsi) \/ IsNaN(bar.avg_vol)
                 \/ IsNaN(bar.ema_short) \/ IsNaN(bar.ema_long)

\* C1: on a bar where a required indicator is undefined the step emits no
\* entry order and no exit, flat or in a position, in every variant
C1_NoActionWhenUndefined == IndicatorUndefined => NoAction

\* the entry conditions of the variant hold on the bar of the last step
EntrySignal ==
    /\ out.branch = "flat"
    /\ CASE variant = 1 ->
              /\ Lt(bar.prev_close, bar.prev_ema) /\ Gt(bar.Close, bar.ema)
              /\ ~IsNaN(bar.avg_vol) /\ 2 * bar.Volume > 3 * bar.avg_vol
              /\ has_funding => (bar.funding < 0 /\ bar.prev_funding >= 0)
         [] variant = 2 ->
              /\ len_data - 1 > CO_min_len
              /\ Lt(bar.slowk, 20) /\ Lt(bar.slowd, bar.prev_slowd)
              /\ Lt(bar.cci, -100) /\ Lt(bar.Volume, bar.vol_sma)
         [] variant = 3 ->
              /\ ~IndicatorUndefined
              /\ out.ntrades < max_concurrent
              /\ 2 * bar.Volume > 3 * bar.vol_sma
              /\ 1000 * bar.atr < 5 * bar.Close
              /\ 10 * bar.spread_proxy > 11 * bar.avg_spread
              /\ bar.adx < 25
         [] variant = 4 ->
              /\ len_data - 1 > NCR_min_len
              /\ ~IsNaN(bar.ema) /\ ~IsNaN(bar.std)
              /\ bar.Close < bar.ema - 2 * bar.std
              /\ Lt(bar.rsi, 30) /\ Gt(bar.Volume, bar.vol_avg)
         [] variant = 5 ->
              /\ ~IndicatorUndefined /\ bar.stdev > 0
              /\ Abs(bar.Close - bar.sma) > 2 * bar.stdev
         [] variant = 6 ->
              /\ ~IndicatorUndefined
              /\ 2 * bar.Volume > 3 * bar.avg_vol
              /\ \/ /\ bar.Close > bar.ema_short /\ bar.ema_short > bar.ema_long
                    /\ bar.rsi > 55
                 \/ /\ bar.Close < bar.ema_short /\ bar.ema_short < bar.ema_long
                    /\ bar.rsi < 45

\* risk_amount / stop_distance of the bar is at most one half, so that it
\* rounds to 0 units (stop distance positive); variant 3 rounds to 1/Unit
SizeRoundsToZero ==
    CASE variant = 1 -> bar.Close > 0 /\ 2 * bar.equity * 1 <= bar.Close * 2
      [] variant = 2 -> bar.Close > 0 /\ 2 * initial_capital * 1 <= bar.Close * 4
      [] variant = 3 ->
           bar.atr > 0 /\ 2 * bar.equity * 50 <= bar.atr * bar.Close
      [] variant = 4 -> bar.Close > 0 /\ 2 * bar.equity * 1 <= bar.Close * 4
      [] variant = 5 -> bar.Close > 0 /\ 2 * bar.equity * 1 <= bar.Close * 2
      [] variant = 6 -> bar.atr > 0 /\ 2 * bar.equity * 2 <= bar.atr * 3 * 100

StopDistanceNotPositive ==
    /\ out.branch = "flat"
    /\ CASE variant \in {3, 6} -> ~IsNaN(bar.atr) /\ bar.atr <= 0
         [] OTHER -> bar.Close <= 0

\* C3: with a stop distance of 0 or less the step emits no order and does
\* not fail
C3_NoOrderNoFailureOnZeroStop ==
    StopDistanceNotPositive => (out.orders = <<>> /\ ~out.raised)

\* the exit conditions of FundingCrossover on the bar of the last step
C4_trail == bar.Low * 100 <= max_high * 98
C4_tp == bar.Close * 100 >= entry_price * 104
C4_funding == has_funding /\ bar.funding > 0
C4_time == (i - 1) - entry_bar >= 8

\* C4: variant 1 makes at most one exit per bar, the first that qualifies
\* in the order trailing stop, take-profit, funding, time
C4_ExitPriority ==
    (variant = 1 /\ out.branch = "open") =>
        /\ Len(out.exits) <= 1
        /\ C4_trail => out.exits = <<"trailing_stop">>
        /\ (~C4_trail /\ C4_tp) => out.exits = <<"take_profit">>
        /\ (~C4_trail /\ ~C4_tp /\ C4_funding) => out.exits = <<"funding">>
        /\ (~C4_trail /\ ~C4_tp /\ ~C4_funding /\ C4_time) =>
               out.exits = <<"time">>
        /\ (~C4_trail /\ ~C4_tp /\ ~C4_funding /\ ~C4_time) => out.exits = <<>>

C4_Witness ==
    /\ variant = 1 /\ out.branch = "open"
    /\ C4_trail /\ C4_tp /\ C4_funding /\ C4_time
    /\ out.exits = <<"trailing_stop">>

\* C5: from the entry bar to the exit max_high never decreases, and every
\* entry starts it again at that entry's price
C5_MaxHighMonotonic ==
    [][ variant = 1 =>
          /\ (side # "flat" \/ pending = "buy") => max_high' >= max_high
          /\ (pending = "none" /\ out'.orders # <<>>) =>
                 (max_high' = bar'.Close /\ max_high' = entry_price') ]_vars

C5_Witness ==
    /\ variant = 1 /\ out.branch = "open" /\ side = "long"
    /\ out.exits = <<>>
    /\ max_high > entry_price

\* C6: a non-maker variant emits an entry order only when it is flat, and
\* never holds more than one position
C6_EntryOnlyWhenFlat ==
    variant # 3 =>
        /\ out.orders # <<>> => out.pos = "flat"
        /\ trades <= 1

C6_Witness ==
    /\ variant # 3
    /\ out.orders # <<>>
    /\ trades = 1 /\ side # "flat"

\* C7: the open trades of variant 3 never exceed max_concurrent, and a bar
\* that finds the cap reached places no order
C7_TradesWithinCap ==
    variant = 3 =>
        /\ trades <= max_concurrent
        /\ out.skip = "max_concurrent" => out.orders = <<>>

\* C8: with max_concurrent = 2 the third qualifying bar in a row is refused
C8_ThirdBarRefused ==
    (variant = 3 /\ max_concurrent = 2 /\ out.streak = 3) =>
        (out.orders = <<>> /\ out.skip = "max_concurrent")

\* C9: entry_atr is the ATR of the entry bar, stays as it is until the next
\* entry, and every bar of the trade takes its stop distance sl_mult *
\* entry_atr and target distance rr_ratio * sl_mult * entry_atr from it
C9_FrozenEntryAtr ==
    [][ variant = 6 =>
          /\ (pending = "none" /\ out'.orders # <<>>) => entry_atr' = bar'.atr
          /\ (pending = "none" /\ out'.orders = <<>>) => entry_atr' = entry_atr
          /\ pending # "none" => entry_atr' = entry_atr
          /\ (pending = "none" /\ out'.branch = "open") =>
                 /\ 2 * out'.sl_dist = 3 * entry_atr * Unit
                 /\ 2 * out'.tp_dist = 9 * entry_atr * Unit ]_vars

C9_Witness ==
    /\ variant = 6 /\ out.branch = "open"
    /\ entry_atr = 10 /\ bar.atr = 20
    /\ out.sl_dist = 15 * Unit

\* C10: variant 5 returns without an entry or an exit when fewer than
\* lookback bars exist or the mean or deviation is undefined or the
\* deviation is 0, with or without a position
C10_GuardTrips ==
    (/\ variant = 5 /\ Stepped
     /\ \/ len_data <= lookback
        \/ IsNaN(bar.sma) \/ IsNaN(bar.stdev) \/ bar.stdev = 0) => NoAction

C10_Witness ==
    /\ variant = 5 /\ side # "flat" /\ Stepped
    /\ bar.stdev = 0 /\ bar.sma = 100 /\ bar.Close = 114
    /\ NoAction

\* the guard of variant 5 passed on the bar of the last step
C11_guard_passed ==
    /\ variant = 5 /\ Stepped
    /\ len_data > lookback
    /\ ~IsNaN(bar.sma) /\ ~IsNaN(bar.stdev) /\ bar.stdev > 0

\* the stop-loss and reversion conditions of variant 5 on that bar
C11_stop ==
    \/ out.pos = "long" /\ bar.Close - bar.sma < -(3 * bar.stdev)
    \/ out.pos = "short" /\ bar.Close - bar.sma > 3 * bar.stdev
C11_reversion == 2 * Abs(bar.Close - bar.sma) < bar.stdev

\* C11: with a position open variant 5 tests the stop-loss before the
\* reversion exit, closes at most once per bar, and a bar on which either
\* fires emits no entry
C11_StopBeforeReversion ==
    (C11_guard_passed /\ out.pos # "flat") =>
        /\ Len(out.exits) <= 1
        /\ C11_stop => out.exits = <<"stop_loss">>
        /\ (~C11_stop /\ C11_reversion) => out.exits = <<"reversion">>
        /\ (~C11_stop /\ ~C11_reversion) => out.exits = <<>>
        /\ out.exits # <<>> => out.orders = <<>>

C11_Witness ==
    /\ C11_guard_passed /\ out.pos = "long"
    /\ bar.Close = 86 /\ bar.sma = 100 /\ bar.stdev = 4
    /\ out.exits = <<"stop_loss">> /\ out.orders = <<>>

\* C12 as stated: in every variant a step emits no exit together with an
\* entry; a step that starts with a position open emits exits only, a step
\* that starts flat entries only
C12_ExitsOrEntries ==
    Stepped =>
        /\ ~(out.exits # <<>> /\ out.orders # <<>>)
        /\ out.pos # "flat" => out.orders = <<>>
        /\ out.pos = "flat" => out.exits = <<>>

\* C12 as amended: no step emits both; variants 1, 2, 4, 5, 6 emit entries
\* only when flat and exits only with a position open; variant 3 emits no
\* exit at all and places its orders with or without open trades
C12_ExitsOrEntriesButMaker ==
    Stepped =>
        /\ ~(out.exits # <<>> /\ out.orders # <<>>)
        /\ variant # 3 =>
              /\ out.pos # "flat" => out.orders = <<>>
              /\ out.pos = "flat" => out.exits = <<>>
        /\ variant = 3 => out.exits = <<>>

C12_Witness ==
    /\ variant # 3 /\ Stepped
    /\ out.pos # "flat" /\ out.exits # <<>> /\ out.orders = <<>>
    /\ pending = "close"

\* the price an order's levels are measured from, in 1/Unit: the limit
\* price of a limit order, the close of the bar for a market order
C13_reference(o) == IF o.type = "limit" THEN o.limit ELSE bar.Close * Unit

\* the levels of every order the last step emitted lie on the right sides
C13_orders_consistent ==
    \A k \in 1..Len(out.orders) :
        LET o == out.orders[k]
        IN  o.sl # Absent =>
              /\ o.tp # Absent
              /\ o.side = "buy" => (o.sl < C13_reference(o) /\ o.tp > C13_reference(o))
              /\ o.side = "sell" => (o.sl > C13_reference(o) /\ o.tp < C13_reference(o))

\* the distances variant 6 takes its levels with (entry price - stop
\* distance and + target distance for a long, reversed for a short)
C13_distances_positive ==
    (variant = 6 /\ out.branch = "open") => (out.sl_dist > 0 /\ out.tp_dist > 0)

\* C13 as stated: the stop-loss of a long lies strictly below its entry price
\* and the take-profit strictly above it, reversed for a short, for every
\* order and position with levels (variants 2, 3, 4, 6), while it is live
C13_LevelsStrictlyConsistent ==
    /\ C13_orders_consistent
    /\ C13_distances_positive
    /\ (variant = 2 /\ entry_price # Absent) =>
          (stop_loss < entry_price * Unit /\ take_profit > entry_price * Unit)

\* C13 as amended: the same, but the stop-loss of variant 2 is strictly below
\* the entry price only until it is moved to breakeven, and then equals it
C13_LevelsConsistent ==
    /\ C13_orders_consistent
    /\ C13_distances_positive
    /\ (variant = 2 /\ entry_price # Absent) =>
          /\ take_profit > entry_price * Unit
          /\ \/ stop_loss = entry_price * (Unit - stop_loss_pct)
             \/ stop_loss = entry_price * Unit

C13_Witness ==
    /\ variant = 2 /\ side = "long" /\ out.branch = "open"
    /\ entry_price = 100 /\ bar.Close = 103
    /\ stop_loss = entry_price * Unit

\* C14: every order a step emits has a size above 0, and in variant 6 a
\* size of at least one unit
C14_SizesPositive ==
    \A k \in 1..Len(out.orders) :
        /\ out.orders[k].size > 0
        /\ variant = 6 => out.orders[k].size >= Unit

C14_Witness ==
    /\ variant = 6 /\ EntrySignal /\ SizeRoundsToZero
    /\ Len(out.orders) = 1 /\ out.orders[1].size = Unit

\* equity * risk fraction / stop distance of the bar of the last step,
\* rounded to the unit of the variant (whole units; 1/Unit in variant 3),
\* in 1/Unit
C15_expected_size ==
    CASE variant = 1 -> RoundHalfEven(bar.equity * 1, bar.Close * 2) * Unit
      [] variant = 2 -> RoundHalfEven(bar.equity * 1, bar.Close * 4) * Unit
      [] variant = 3 -> RoundHalfEven(bar.equity * 50, bar.atr)
      [] variant = 4 -> RoundHalfEven(bar.equity * 1, bar.Close * 4) * Unit
      [] variant = 5 -> RoundHalfEven(bar.equity * 1, bar.Close * 2) * Unit
      [] variant = 6 -> RoundHalfEven(bar.equity * 2, bar.atr * 300) * Unit

\* C15: every entry a step emits is sized equity at the entry bar * the
\* risk fraction of the variant / the stop distance, rounded to its unit
C15_SizeFromEquityAtEntry ==
    \A k \in 1..Len(out.orders) : out.orders[k].size = C15_expected_size

\* 1-based number of the bar on which the last step of variant 1 was
\* called: len(self.data) when it ran
C16_call_bar == len_data - 1

\* 1-based number of the bar whose Close, Volume and averages the last step
\* of variant 1 read: index self.i before the increment
C16_read_bar == i

\* the bar read by the last step is the claim's bar 21: no funding data,
\* close crossing above the average, volume twice its average
C16_scenario ==
    /\ variant = 1
    /\ out.branch = "flat"
    /\ ~has_funding
    /\ C16_read_bar = 21
    /\ Lt(bar.prev_close, bar.prev_ema) /\ Gt(bar.Close, bar.ema)
    /\ ~IsNaN(bar.avg_vol) /\ bar.Volume = 2 * bar.avg_vol

\* C16: variant 1 emits no entry on a bar before bar 20, and the entry
\* for a close crossing above the 20-period average on bar 21 (volume twice
\* its average, no funding data) is emitted on bar 21, the bar of the cross:
\* every entry is emitted on the bar whose values the step tested.
C16_EntryOnBarOfCross ==
    (variant = 1 /\ out.orders # <<>>) =>
        /\ C16_call_bar >= 20
        /\ C16_call_bar = C16_read_bar

\* the first half of C16 alone: no entry on a bar before bar 20
C16_NoEntryBeforeBar20 ==
    (variant = 1 /\ out.orders # <<>>) => C16_call_bar >= 20

\* the scenario of C16 happens: the cross of bar 21 produced one long entry
C16_ScenarioEntry ==
    /\ C16_scenario
    /\ Len(out.orders) = 1
    /\ out.orders[1].side = "buy"

\* the close crosses above the average on the bar read by the last step
C17_cross == Lt(bar.prev_close, bar.prev_ema) /\ Gt(bar.Close, bar.ema)

\* the volume of that bar exceeds volume_mult (1.5) times its average
C17_volume == ~IsNaN(bar.avg_vol) /\ 2 * bar.Volume > 3 * bar.avg_vol

\* the funding rate turned negative on that bar
C17_funding_flip == bar.funding < 0 /\ bar.prev_funding >= 0

\* the values the last step of variant 1 tested are those of the bar it
\* was called on
C17_tested_bar_is_current == len_data - 1 = i

\* C17: variant 1 emits a long entry only on a bar where the close crosses
\* above the moving average, the volume exceeds volume_mult times its
\* average and, when the feed has funding data, the funding rate is negative
\* on this bar and was non-negative on the previous one. Without a
\* FundingRate field the funding condition is true for every entry (cross
\* and volume alone decide) and the funding emergency exit never fires.
C17_EntryOnQualifyingBar ==
    variant = 1 =>
        /\ out.orders # <<>> =>
              /\ Len(out.orders) = 1
              /\ out.orders[1].side = "buy"
              /\ C17_tested_bar_is_current
              /\ C17_cross
              /\ C17_volume
              /\ has_funding => C17_funding_flip
        /\ ~has_funding =>
              /\ \A k \in 1..Len(out.exits) : out.exits[k] # "funding"
              /\ (out.branch = "flat" /\ C17_cross /\ C17_volume
                    /\ out.skip = "none" /\ ~out.raised) => out.orders # <<>>

\* the conditions of C17 taken of the bar the step read at index self.i,
\* whichever bar it was called on
C17_LongEntryConditions ==
    variant = 1 =>
        /\ out.orders # <<>> =>
              /\ Len(out.orders) = 1
              /\ out.orders[1].side = "buy"
              /\ out.branch = "flat"
              /\ C17_cross
              /\ C17_volume
              /\ has_funding => C17_funding_flip
        /\ ~has_funding =>
              /\ \A k \in 1..Len(out.exits) : out.exits[k] # "funding"
              /\ (out.branch = "flat" /\ C17_cross /\ C17_volume
                    /\ out.skip = "none" /\ ~out.raised) => out.orders # <<>>

\* an entry on a feed with funding data, taken on the bar the rate turned
\* negative
C17_Witness ==
    /\ variant = 1
    /\ has_funding
    /\ out.orders # <<>>
    /\ C17_cross /\ C17_volume /\ C17_funding_flip

\* an entry on a feed without funding data
C17_WitnessNoFunding ==
    /\ variant = 1
    /\ ~has_funding
    /\ out.orders # <<>>

\* a step of variant 2 taken with a position open and its levels set
C18_open_step ==
    /\ variant = 2
    /\ side # "flat"
    /\ pending = "none"
    /\ entry_price # Absent
    /\ out'.branch = "open"

\* the stop after the breakeven move of the step: the entry price once the
\* close is more than 2% above it
C18_stop ==
    IF bar'.Close * 100 > entry_price * 102 /\ stop_loss < entry_price * Unit
    THEN entry_price * Unit ELSE stop_loss

\* the swing low since entry, the bar of the step included
C18_low_price ==
    IF bar'.Low < current_low_price THEN bar'.Low ELSE current_low_price

C18_low_obv ==
    IF bar'.Low < current_low_price THEN bar'.obv ELSE current_low_obv

C18_take_profit == bar'.Close * Unit >= take_profit

C18_stop_loss == bar'.Close * Unit <= C18_stop

C18_divergence ==
    /\ C18_low_price < previous_low_price
    /\ Gt(C18_low_obv, previous_low_obv)

C18_step ==
    C18_open_step =>
        /\ Len(out'.exits) <= 1
        /\ out'.exits =
             IF C18_take_profit THEN <<"take_profit">>
             ELSE IF C18_stop_loss THEN <<"stop_loss">>
             ELSE IF C18_divergence THEN <<"divergence">>
             ELSE <<>>
        /\ out'.exits = <<>> => stop_loss' = C18_stop

\* C18: on every bar of variant 2 with an open position the stop is first
\* moved to breakeven if the close is above entry_price * (1 + trail_be);
\* then the exits are evaluated in the order take-profit, stop-loss
\* (against the moved stop), bullish OBV divergence: at most one closes the
\* position and the first that qualifies is the one reported.
C18_ExitOrder == [][C18_step]_vars

\* a take-profit exit on a bar that made a swing low below the one before
\* entry with a higher OBV: the divergence would qualify too
C18_Witness ==
    /\ variant = 2
    /\ out.branch = "open"
    /\ out.exits = <<"take_profit">>
    /\ bar.Low < previous_low_price
    /\ Gt(bar.obv, previous_low_obv)

\* the stop stands at breakeven after a bar that closed no position
C18_WitnessBreakeven ==
    /\ variant = 2
    /\ out.branch = "open"
    /\ out.exits = <<>>
    /\ entry_price # Absent
    /\ stop_loss = entry_price * Unit

\* the four maker conditions on the bar read by the last step: volume above
\* 1.5 x its average, ATR below 0.5% of the close, spread proxy above 1.1 x
\* its average, ADX below 25
C19_conditions ==
    /\ Gt(2 * bar.Volume, 3 * bar.vol_sma)
    /\ Lt(1000 * bar.atr, 5 * bar.Close)
    /\ Gt(10 * bar.spread_proxy, 11 * bar.avg_spread)
    /\ Lt(bar.adx, 25)

\* the stop and target distances of the bar, in 1/Unit: 1 and 2 ATR
C19_sl_dist == bar.atr * Unit

C19_tp_dist == 2 * bar.atr * Unit

\* the pair placed by the last step: a buy limit under the close and a sell
\* limit over it at the same distance, one size, each bracket measured from
\* its own limit
C19_pair ==
    LET b == out.orders[1]
        s == out.orders[2]
    IN  /\ b.side = "buy" /\ b.type = "limit"
        /\ s.side = "sell" /\ s.type = "limit"
        /\ b.limit < bar.Close * Unit
        /\ s.limit > bar.Close * Unit
        /\ bar.Close * Unit - b.limit = s.limit - bar.Close * Unit
        /\ b.size = s.size
        /\ b.size > 0
        /\ b.size = RoundHalfEven(bar.equity * 50 * Unit,
                                  C19_sl_dist * bar.Close)
        /\ b.sl = b.limit - C19_sl_dist
        /\ b.tp = b.limit + C19_tp_dist
        /\ s.sl = s.limit + C19_sl_dist
        /\ s.tp = s.limit - C19_tp_dist

\* C19: variant 3 places orders only on a bar where volume spike, low
\* ATR/price, widening spread proxy and ADX below the threshold all hold;
\* the orders of such a bar are exactly two limit orders placed together, a
\* buy below the close and a sell above it by the same offset, both with
\* the one size computed from the ATR-derived stop distance, each with its
\* own stop-loss and take-profit measured from its own limit price.
C19_PairedLimitOrders ==
    variant = 3 =>
        /\ out.orders # <<>> =>
              /\ C19_conditions
              /\ Len(out.orders) = 2
              /\ C19_pair
        /\ (/\ out.branch = "flat"
            /\ C19_conditions
            /\ out.skip = "none"
            /\ ~out.raised) => Len(out.orders) = 2

\* a bar on which the pair was placed
C19_Witness ==
    /\ variant = 3
    /\ Len(out.orders) = 2
    /\ C19_conditions
    /\ out.orders[1].limit < out.orders[2].limit

\* the last step of variant 5 ran flat and passed the guard: a z-score was
\* computed from the bar
C20_flat_step == variant = 5 /\ out.branch = "flat"

\* z > entry_z and z < -entry_z, entry_z = 2, for z = (Close - sma) / stdev
\* with stdev > 0
C20_z_high == bar.Close - bar.sma > 2 * bar.stdev

C20_z_low == bar.Close - bar.sma < -(2 * bar.stdev)

C20_short_entry == Len(out.orders) = 1 /\ out.orders[1].side = "sell"

C20_long_entry == Len(out.orders) = 1 /\ out.orders[1].side = "buy"

\* C20: when variant 5 is flat and the guard passes, a short entry is
\* emitted exactly when z > entry_z and a long entry exactly when
\* z < -entry_z; no entry is emitted when |z| <= entry_z; the side of an
\* entry is always opposite to the sign of z.
C20_EntrySideFromZ ==
    C20_flat_step =>
        /\ C20_short_entry <=> C20_z_high
        /\ C20_long_entry <=> C20_z_low
        /\ (~C20_z_high /\ ~C20_z_low) => out.orders = <<>>
        /\ C20_short_entry => bar.Close > bar.sma
        /\ C20_long_entry => bar.Close < bar.sma

\* a short entry above the band
C20_Witness == C20_flat_step /\ C20_short_entry /\ C20_z_high

\* a long entry below the band
C20_WitnessLong == C20_flat_step /\ C20_long_entry /\ C20_z_low

\* a flat bar with z exactly on the threshold, without entry
C20_WitnessOnThreshold ==
    /\ C20_flat_step
    /\ bar.Close - bar.sma = 2 * bar.stdev
    /\ out.orders = <<>>

\* a step of variant 4 taken with a position open (every such step changes
\* the bars-held counter)
C21_open_step ==
    /\ variant = 4
    /\ side # "flat"
    /\ pending = "none"
    /\ trade_bars' # trade_bars
    /\ out'.branch = "open"

\* close at or above the average, RSI above 70, or the counter, once
\* incremented for the bar, above 480
C21_exit_due ==
    \/ Ge(bar'.Close, bar'.ema)
    \/ Gt(bar'.rsi, 70)
    \/ trade_bars + 1 > 480

C21_step == C21_open_step => (out'.exits # <<>> <=> C21_exit_due)

\* C21: variant 4 closes an open position on a bar exactly when
\* close >= EMA, or RSI > 70, or the bars-held counter exceeds 480; on a
\* bar where none of these holds the strategy emits no close.
C21_ExitExactlyWhenDue == [][C21_step]_vars

\* a close emitted for the overbought RSI alone: the close is below the
\* average and the holding period is not over
C21_Witness ==
    /\ variant = 4
    /\ out.branch = "open"
    /\ out.exits # <<>>
    /\ Lt(bar.Close, bar.ema)
    /\ Gt(bar.rsi, 70)

\* a close emitted for the holding period alone
C21_WitnessTime ==
    /\ variant = 4
    /\ out.branch = "open"
    /\ out.exits # <<>>
    /\ Lt(bar.Close, bar.ema)
    /\ Le(bar.rsi, 70)

\* an open bar on which nothing is due and no close is emitted
C21_WitnessHold ==
    /\ variant = 4
    /\ out.branch = "open"
    /\ out.exits = <<>>
    /\ trade_bars > 1

\* the last step of variant 6 ran with a position open, and the broker has
\* not yet executed what it emitted
C22_open_step == variant = 6 /\ out.branch = "open" /\ side # "flat"

\* the frozen levels of the trade, doubled to stay in integers: entry price
\* -/+ 1.5 entry_atr (stop) and +/- 4.5 entry_atr (target)
C22_stop_reached ==
    IF side = "long"
    THEN 2 * bar.Close <= 2 * trade_entry_price - 3 * entry_atr
    ELSE 2 * bar.Close >= 2 * trade_entry_price + 3 * entry_atr

C22_target_reached ==
    IF side = "long"
    THEN 2 * bar.Close >= 2 * trade_entry_price + 9 * entry_atr
    ELSE 2 * bar.Close <= 2 * trade_entry_price - 9 * entry_atr

\* the bar read by the last step meets the entry conditions of the other
\* side: trend, regime, momentum and volume all point against the position
C22_opposite_signal ==
    IF side = "long"
    THEN /\ Lt(bar.Close, bar.ema_short) /\ Lt(bar.ema_short, bar.ema_long)
         /\ Lt(bar.rsi, 45) /\ Gt(2 * bar.Volume, 3 * bar.avg_vol)
    ELSE /\ Gt(bar.Close, bar.ema_short) /\ Gt(bar.ema_short, bar.ema_long)
         /\ Gt(bar.rsi, 55) /\ Gt(2 * bar.Volume, 3 * bar.avg_vol)

\* C22: while a position of variant 6 is open the strategy closes it only
\* when the close reaches the frozen stop (long: close <= entry - sl_dist,
\* short: close >= entry + sl_dist) or the frozen target (long: close >=
\* entry + tp_dist, short: close <= entry - tp_dist), the stop checked
\* first; no EMA, RSI or volume value ever closes the position.
C22_OnlyFrozenLevelsClose ==
    (C22_open_step /\ ~IsNaN(entry_atr)) =>
        out.exits = IF C22_stop_reached THEN <<"stop_loss">>
                    ELSE IF C22_target_reached THEN <<"take_profit">>
                    ELSE <<>>

\* a position kept through a bar that signals the other side
C22_Witness ==
    /\ C22_open_step
    /\ ~IsNaN(entry_atr)
    /\ C22_opposite_signal
    /\ out.exits = <<>>

\* a short position closed at its frozen stop
C22_WitnessShortStop ==
    /\ C22_open_step
    /\ side = "short"
    /\ out.exits = <<"stop_loss">>

\* the volume filter of variant 6 on the bar read by the last step: volume
\* above 1.5 x its average
C23_volume == Gt(2 * bar.Volume, 3 * bar.avg_vol)

C23_long_conditions ==
    /\ Gt(bar.Close, bar.ema_short)
    /\ Gt(bar.ema_short, bar.ema_long)
    /\ Gt(bar.rsi, 55)
    /\ C23_volume

C23_short_conditions ==
    /\ Lt(bar.Close, bar.ema_short)
    /\ Lt(bar.ema_short, bar.ema_long)
    /\ Lt(bar.rsi, 45)
    /\ C23_volume

\* C23: variant 6 emits a long entry only when price > fast EMA, fast EMA >
\* slow EMA, RSI > 55 and volume > 1.5 x average volume, and a short entry
\* only when price < fast EMA, fast EMA < slow EMA, RSI < 45 and the same
\* volume filter; so no long is opened in a downtrend regime (fast EMA <=
\* slow EMA) and no short in an uptrend regime.
C23_EntryAlignment ==
    variant = 6 =>
        \A k \in 1..Len(out.orders) :
            /\ out.orders[k].side = "buy" =>
                  /\ C23_long_conditions
                  /\ ~Le(bar.ema_short, bar.ema_long)
            /\ out.orders[k].side = "sell" =>
                  /\ C23_short_conditions
                  /\ ~Ge(bar.ema_short, bar.ema_long)

\* a long entry in an uptrend regime
C23_Witness ==
    /\ variant = 6
    /\ Len(out.orders) = 1
    /\ out.orders[1].side = "buy"
    /\ C23_long_conditions

\* a short entry in a downtrend regime
C23_WitnessShort ==
    /\ variant = 6
    /\ Len(out.orders) = 1
    /\ out.orders[1].side = "sell"
    /\ C23_short_conditions

\* a flat bar above the fast average with momentum and volume, in a
\* downtrend regime: no entry
C23_WitnessDowntrend ==
    /\ variant = 6
    /\ out.branch = "flat"
    /\ Gt(bar.Close, bar.ema_short) /\ Gt(bar.rsi, 55) /\ C23_volume
    /\ Le(bar.ema_short, bar.ema_long)
    /\ out.orders = <<>>

\* index of the last bar in the window of the last step of variant 1, and
\* the highest index that step read: self.i before its increment.
\* self.funding is the whole FundingRate column taken in init, so an index
\* past the window would read a bar that has not happened yet.
C24_current_index == len_data - 2

C24_read_index == i - 1

C25_fetch_failed == variant = 1 /\ funding_fetch \in {"no_range", "raised", "empty"}

\* C25: when the funding-rate fetch raises, returns an empty result or is
\* called without a time range, fetch_funding_rates returns an empty table,
\* no FundingRate field is added to the bars, and the run goes on with
\* variant 1's funding-dependent conditions disabled: no funding exit is
\* emitted, entries are decided by cross and volume alone, and the failure
\* never aborts the run.
C25_FetchFailureDisablesFunding ==
    C25_fetch_failed =>
        /\ fetch_funding_rates(funding_fetch) = 0
        /\ ~has_funding
        /\ ~failed
        /\ \A k \in 1..Len(out.exits) : out.exits[k] # "funding"
        /\ (out.branch = "flat" /\ C17_cross /\ C17_volume
              /\ out.skip = "none") => out.orders # <<>>

\* a run whose fetch raised goes on to an entry, and a later bar closes it
\* on a level that has nothing to do with funding
C25_Witness ==
    /\ variant = 1
    /\ funding_fetch = "raised"
    /\ out.branch = "open"
    /\ out.exits = <<"time">>

\* a run whose fetch was called without a time range reaches an entry
C25_WitnessNoRange ==
    /\ variant = 1
    /\ funding_fetch = "no_range"
    /\ out.orders # <<>>

\* a step of variant 1 taken with a position open, at index self.i = i
C26_open_step ==
    /\ variant = 1
    /\ side # "flat"
    /\ pending = "none"
    /\ i' = i + 1

C26_step ==
    C26_open_step =>
        /\ entry_bar # Absent
        /\ i - entry_bar <= 8
        /\ i - entry_bar >= 8 => out'.exits # <<>>

\* C26: every position of variant 1 is closed no later than the bar whose
\* index is entry_bar + max_hold_bars (8): a step taken with a position
\* open and i - entry_bar >= 8 emits a close whatever the prices and the
\* funding values are, so that no step ever finds a position open with
\* i - entry_bar above 8.
C26_ClosedWithinMaxHold == [][C26_step]_vars

\* a position closed by the holding period alone, on index entry_bar + 8
C26_Witness ==
    /\ variant = 1
    /\ out.branch = "open"
    /\ out.exits = <<"time">>
    /\ (i - 1) - entry_bar = 8

\* a step of variant 4: the strategy ran (the broker's own steps leave the
\* bar, the record of the step and the counters as they are)
C27_step_taken ==
    /\ variant = 4
    /\ pending = "none"
    /\ <<bar, out, trade_bars, len_data>>' # <<bar, out, trade_bars, len_data>>

C27_counter ==
    C27_step_taken =>
        /\ (side = "flat" /\ out'.orders = <<>>) => trade_bars' = 0
        /\ (side = "flat" /\ out'.orders # <<>>) => trade_bars' = 1
        /\ (side # "flat" /\ out'.exits = <<>>) =>
               /\ trade_bars' = trade_bars + 1
               /\ trade_bars' <= 480
        /\ (side # "flat" /\ out'.exits # <<>>) => trade_bars' = 0
        /\ (side # "flat" /\ trade_bars + 1 > 480) => out'.exits # <<>>

\* C27: the bars-held counter of variant 4 is 0 after every step that ends
\* flat without an entry, 1 after the entry step, and one more after each
\* bar the position stays open; the strategy never leaves a position open
\* on a bar where the counter exceeds 480, so a trade lasts at most 480
\* bars after its entry bar.
C27_BarsHeldCounter == [][C27_counter]_vars

\* at no time does the counter pass 480
C27_CounterBound == variant = 4 => trade_bars <= 480

\* a position held up to the last bar the counter allows
C27_Witness ==
    /\ variant = 4
    /\ out.branch = "open"
    /\ out.exits = <<>>
    /\ trade_bars = 480

C28_previous == <<previous_low_price, previous_low_obv>>

C28_current == <<current_low_price, current_low_obv>>

\* a step of variant 2 (the broker acts only while an order is pending)
C28_strategy_step == variant = 2 /\ pending = "none"

C28_frame ==
    /\ (C28_strategy_step /\ side = "flat" /\ out'.orders # <<>>) =>
          /\ C28_previous' = <<bar'.Low, bar'.obv>>
          /\ C28_current' = <<bar'.Low, bar'.obv>>
    /\ (C28_strategy_step /\ side = "flat" /\ out'.orders = <<>>) =>
          \/ C28_previous' = C28_previous
          \/ /\ bar'.Low < previous_low_price
             /\ C28_previous' = <<bar'.Low, bar'.obv>>
    /\ (C28_strategy_step /\ side # "flat") =>
          /\ C28_previous' = C28_previous
          /\ out'.exits = <<>> => current_low_price' <= current_low_price
          /\ out'.exits # <<>> => C28_current' = <<PosInf, NegInf>>
    /\ (variant = 2 /\ pending # "none") =>
          /\ C28_previous' = C28_previous
          /\ C28_current' = C28_current

\* C28: variant 2 updates the previous swing low (price, OBV) pair only on
\* bars where it is flat and sets it to the entry bar's (low, OBV) at
\* entry; while a position is open the previous pair is unchanged and the
\* current swing low price never increases; on any exit the current pair is
\* reset to (+infinity, -infinity) while the previous pair is kept.
C28_SwingLowFrame == [][C28_frame]_vars

\* after an exit: the current pair is reset, the previous pair is still
\* that of the entry bar
C28_Witness ==
    /\ variant = 2
    /\ out.branch = "open"
    /\ out.exits # <<>>
    /\ C28_current = <<PosInf, NegInf>>
    /\ previous_low_price # PosInf

\* in a trade, a swing low below the one of the entry bar
C28_WitnessLower ==
    /\ variant = 2
    /\ out.branch = "open"
    /\ out.exits = <<>>
    /\ current_low_price < previous_low_price

\* the two values the stop of a trade of variant 2 can take, in 1/Unit:
\* 4% under the entry price, and the entry price
C29_initial_stop == entry_price * 9600

C29_breakeven_stop == entry_price * Unit

C29_step ==
    (variant = 2 /\ pending = "none") =>
        /\ (side = "flat" /\ out'.orders # <<>>) =>
              /\ entry_price' = bar'.Close
              /\ stop_loss' = entry_price' * 9600
              /\ take_profit' # Absent
        /\ side # "flat" =>
              /\ entry_price # Absent
              /\ stop_loss # Absent
              /\ take_profit # Absent
              /\ stop_loss \in {C29_initial_stop, C29_breakeven_stop}
        /\ (side # "flat" /\ out'.exits = <<>>) =>
              /\ entry_price' = entry_price
              /\ stop_loss' >= stop_loss
              /\ stop_loss' = IF bar'.Close * 100 > entry_price * 102
                              THEN C29_breakeven_stop ELSE stop_loss

\* C29: during a trade of variant 2 the stop-loss level never decreases:
\* it is entry_price * (1 - stop_loss_pct) from entry, is raised to
\* entry_price on the first bar whose close exceeds entry_price *
\* (1 + trail_be), and never returns to the lower value for the rest of the
\* trade; entry_price, stop_loss and take_profit are all defined on every
\* bar where a position is open.
C29_StopNeverDecreases == [][C29_step]_vars

\* the stop at breakeven on a bar that closed back under the trigger
C29_Witness ==
    /\ variant = 2
    /\ out.branch = "open"
    /\ out.exits = <<>>
    /\ entry_price # Absent
    /\ stop_loss = entry_price * Unit
    /\ bar.Close * 100 <= entry_price * 102

\* C30: on every bar of variant 1 with an open position max_high is at
\* least the entry_price of the current trade, so the trailing-stop level
\* max_high * (1 - trail_percent) is never below entry_price *
\* (1 - trail_percent), the stop distance the position was sized with.
C30_MaxHighAtLeastEntry ==
    (variant = 1 /\ side # "flat") =>
        /\ max_high # Absent
        /\ entry_price # Absent
        /\ max_high >= entry_price
        /\ max_high * 9800 >= entry_price * 9800

\* a position whose running maximum has risen above its entry price
C30_Witness ==
    /\ variant = 1
    /\ side # "flat"
    /\ out.branch = "open"
    /\ out.exits = <<>>
    /\ entry_price # Absent
    /\ max_high > entry_price

\* a position on a bar whose high is under the entry price: the maximum
\* stays at the entry price
C30_WitnessLowHigh ==
    /\ variant = 1
    /\ side # "flat"
    /\ out.branch = "open"
    /\ bar.High < entry_price
    /\ max_high = entry_price

====
